---- MODULE Spec2Model ----
(***************************************************************************)
(* Model of cardio_audio_sleep/utils/async_timings.py:                     *)
(* generate_async_timings(sequence_timings, zscore, valid_perc).           *)
(*                                                                         *)
(* One call of the function is one behaviour: Init draws the arguments,    *)
(* the actions are the stages of the function body in program order.       *)
(* Timestamps are modelled as naturals, the z-score threshold as a         *)
(* positive rational <<num, den>>, so every comparison of the code is      *)
(* decided exactly in integer arithmetic.                                  *)
(***************************************************************************)
EXTENDS Integers, Sequences, FiniteSets, TLC

VARIABLES
    pc,                \* position in the function body
    sequence_timings,  \* argument
    zscore,            \* argument, <<numerator, denominator>>
    valid_perc,        \* argument
    argsTyped,         \* whether the three _check_type calls accept the arguments
    n,                 \* line 54
    diff,              \* line 55
    outliers,          \* line 56, what _find_outliers returned
    valids,            \* line 57
    valid,             \* line 60
    delays,            \* line 70
    timings,           \* line 71
    k,                 \* loop index of line 72 (0-based, as enumerate gives it)
    result,            \* what the call handed back: [kind, seq, valid]
    raised,            \* the exception that ended the call, "" when none
    log,               \* records handed to logger.warning
    draws,             \* how many values were taken from the global np.random state
    ran                \* the stages of the body that have been executed

vars == <<pc, sequence_timings, zscore, valid_perc, argsTyped, n, diff, outliers,
          valids, valid, delays, timings, k, result, raised, log, draws, ran>>

----------------------------------------------------------------------------
(* Bounds of the model *)

\* longest generated input sequence of timings
MaxN == 4
\* largest gap between two consecutive generated input timings
MaxStep == 3

(* Program constants *)

\* default of the parameter zscore
DefaultZscore == 4
\* default of the parameter valid_perc
DefaultValidPerc == 60
\* max_iter handed to _find_outliers
MaxIter == 3

----------------------------------------------------------------------------
(* Sequence helpers *)

Range(s) == {s[i] : i \in 1..Len(s)}

RECURSIVE SumSeq(_)
SumSeq(s) == IF Len(s) = 0 THEN 0 ELSE s[1] + SumSeq(Tail(s))

\* the timestamps whose consecutive gaps are incs, starting at 0
Cumul(incs) == [i \in 1..(Len(incs) + 1) |-> SumSeq(SubSeq(incs, 1, i - 1))]

\* python's a[i] for a 0-based, possibly negative, index i
PyIndex(a, i) == IF i < 0 THEN a[Len(a) + i + 1] ELSE a[i + 1]

\* python's ~i on an integer
BitwiseNot(i) == (-i) - 1

\* np.zeros((m,))
Zeros(m) == [i \in 1..m |-> 0]

\* np.diff(a)
NpDiff(a) == [i \in 1..(Len(a) - 1) |-> a[i + 1] - a[i]]

----------------------------------------------------------------------------
(* mne.preprocessing.bads._find_outliers(X, threshold, max_iter), tail = 0.  *)
(*                                                                           *)
(*   my_mask = np.zeros(len(X), dtype=bool)                                  *)
(*   for _ in range(max_iter):                                               *)
(*       X = np.ma.masked_array(X, my_mask)                                  *)
(*       this_z = np.abs(zscore(X))                                          *)
(*       local_bad = this_z > threshold                                      *)
(*       my_mask = np.max([my_mask, local_bad], 0)                           *)
(*       if not np.any(local_bad): break                                     *)
(*   bad_idx = np.where(my_mask)[0]                                          *)
(*   return bad_idx                                                          *)
(*                                                                           *)
(* The z-score is (x - mean) / std over the entries not yet masked, std the  *)
(* population standard deviation. With m entries of sum s and sum of squares *)
(* ss, |z| > num/den is den^2 (m x - s)^2 > num^2 (m ss - s^2); a zero std   *)
(* gives no finite z-score and flags nothing. The function returns the       *)
(* integer indices (0-based, ascending) of the flagged entries.              *)

Unmasked(X, mask) == {i \in 1..Len(X) : ~mask[i]}

RECURSIVE SumOver(_, _)
SumOver(f, S) == IF S = {} THEN 0
                 ELSE LET i == CHOOSE j \in S : TRUE
                      IN f[i] + SumOver(f, S \ {i})

Squares(X) == [i \in 1..Len(X) |-> X[i] * X[i]]

LocalBad(X, mask, thr) ==
    LET In == Unmasked(X, mask)
        m  == Cardinality(In)
        s  == SumOver(X, In)
        ss == SumOver(Squares(X), In)
    IN  [i \in 1..Len(X) |->
            /\ i \in In
            /\ thr[2] * thr[2] * (m * X[i] - s) * (m * X[i] - s)
                 > thr[1] * thr[1] * (m * ss - s * s)]

RECURSIVE IterMask(_, _, _, _)
IterMask(X, mask, thr, iters) ==
    IF iters = 0 THEN mask
    ELSE LET bad == LocalBad(X, mask, thr)
             new == [i \in 1..Len(X) |-> mask[i] \/ bad[i]]
         IN  IF \A i \in 1..Len(X) : ~bad[i] THEN new
             ELSE IterMask(X, new, thr, iters - 1)

\* np.where(mask)[0]: the 0-based positions where mask is true, ascending
RECURSIVE Where(_, _)
Where(mask, i) ==
    IF i > Len(mask) THEN <<>>
    ELSE IF mask[i] THEN <<i - 1>> \o Where(mask, i + 1)
    ELSE Where(mask, i + 1)

\* the boolean mask _find_outliers ends its loop with
OutlierMask(X, thr, max_iter) ==
    IterMask(X, [i \in 1..Len(X) |-> FALSE], thr, max_iter)

FindOutliers(X, thr, max_iter) == Where(OutlierMask(X, thr, max_iter), 1)

----------------------------------------------------------------------------
(* The lines of generate_async_timings *)

\* line 47
PercOutOfRangeStrict(vp) == vp < 0 \/ 100 <= vp
PercOutOfRange(vp) == vp < 0 \/ 100 < vp

\* line 57: diff[~outliers], outliers being an array of integer indices:
\* ~ is the bitwise complement, and diff is indexed by the resulting
\* negative positions, one element per index
Valids(d, out) == [j \in 1..Len(out) |-> PyIndex(d, BitwiseNot(out[j]))]

\* line 58
NeverEmpty(v) == FALSE
EmptyValids(v) == Len(v) = 0

\* line 60: 100 * valids.size / (n - 1) < valid_perc, for n - 1 > 0
ValidFlag(size, total, vp) == 100 * size < vp * total

\* lines 62-68: the arguments of logger.warning
WarningRecord(size, total, vp) == <<size, total, vp>>

\* line 73: timings[k + 1] = timings[-1] + delay, kk the 0-based k
Accumulate(t, kk, delay) ==
    [t EXCEPT ![kk + 2] = PyIndex(t, -1) + delay]

Unset == [kind |-> "unset", seq |-> <<>>, valid |-> FALSE]
NoneResult == [kind |-> "None", seq |-> <<>>, valid |-> FALSE]
SeqResult(t, v) == [kind |-> "seq", seq |-> t, valid |-> v]

----------------------------------------------------------------------------
(* Arguments *)

\* the end-to-end example of the documentation
Example == <<0, 1, 2, 3, 100, 101, 102>>

\* non-decreasing timing sequences of length 0..MaxN starting at 0
TimingSeqs ==
    {<<>>} \cup
    {Cumul(incs) : incs \in UNION {[1..m -> 0..MaxStep] : m \in 0..(MaxN - 1)}}

Zscores == {<<1, 1000>>, <<1, 1>>, <<DefaultZscore, 1>>}

ValidPercs == {-1, 0, DefaultValidPerc, 100, 150}

Init ==
    /\ pc = "validate"
    /\ \/ /\ sequence_timings \in TimingSeqs
          /\ zscore \in Zscores
          /\ valid_perc \in ValidPercs
          /\ argsTyped \in BOOLEAN
       \/ /\ sequence_timings = Example
          /\ zscore \in {<<1, 1>>, <<DefaultZscore, 1>>}
          /\ valid_perc = DefaultValidPerc
          /\ argsTyped = TRUE
    /\ n = 0
    /\ diff = <<>>
    /\ outliers = <<>>
    /\ valids = <<>>
    /\ valid = FALSE
    /\ delays = <<>>
    /\ timings = <<>>
    /\ k = 0
    /\ result = Unset
    /\ raised = ""
    /\ log = <<>>
    /\ draws = 0
    /\ ran = {}

\* lines 42-52: the three type checks, then the range check of valid_perc
Validate ==
    /\ pc = "validate"
    /\ raised' = IF ~argsTyped THEN "TypeError"
                 ELSE IF PercOutOfRange(valid_perc) THEN "ValueError"
                 ELSE ""
    /\ pc' = IF raised' = "" THEN "filter" ELSE "done"
    /\ ran' = ran \cup {"validate"}
    /\ UNCHANGED <<sequence_timings, zscore, valid_perc, argsTyped, n, diff,
                   outliers, valids, valid, delays, timings, k, result, log, draws>>

\* lines 54-57
Filter ==
    /\ pc = "filter"
    /\ n' = Len(sequence_timings)
    /\ diff' = NpDiff(sequence_timings)
    /\ outliers' = FindOutliers(diff', zscore, MaxIter)
    /\ valids' = Valids(diff', outliers')
    /\ ran' = ran \cup {"extract", "filter"}
    /\ pc' = "gate"
    /\ UNCHANGED <<sequence_timings, zscore, valid_perc, argsTyped, valid, delays,
                   timings, k, result, raised, log, draws>>

\* lines 58-68
Gate ==
    /\ pc = "gate"
    /\ IF EmptyValids(valids)
       THEN /\ result' = NoneResult
            /\ pc' = "done"
            /\ UNCHANGED <<valid, log, raised, ran>>
       ELSE IF n - 1 = 0
       THEN /\ raised' = "ZeroDivisionError"
            /\ pc' = "done"
            /\ ran' = ran \cup {"ratio"}
            /\ UNCHANGED <<valid, log, result>>
       ELSE /\ valid' = ValidFlag(Len(valids), n - 1, valid_perc)
            /\ log' = IF ~valid'
                      THEN Append(log, WarningRecord(Len(valids), n - 1, valid_perc))
                      ELSE log
            /\ ran' = ran \cup {"ratio"}
            /\ pc' = "draw"
            /\ UNCHANGED <<result, raised>>
    /\ UNCHANGED <<sequence_timings, zscore, valid_perc, argsTyped, n, diff,
                   outliers, valids, delays, timings, k, draws>>

\* lines 70-71: np.random.choice(valids, size=n - 1, replace=True), np.zeros((n,))
Draw ==
    /\ pc = "draw"
    /\ \E d \in [1..(n - 1) -> Range(valids)] : delays' = d
    /\ draws' = draws + (n - 1)
    /\ timings' = Zeros(n)
    /\ k' = 0
    /\ ran' = ran \cup {"draw"}
    /\ pc' = "loop"
    /\ UNCHANGED <<sequence_timings, zscore, valid_perc, argsTyped, n, diff,
                   outliers, valids, valid, result, raised, log>>

\* lines 72-73: one iteration of the for loop
LoopStep ==
    /\ pc = "loop"
    /\ k < Len(delays)
    /\ timings' = Accumulate(timings, k, delays[k + 1])
    /\ k' = k + 1
    /\ ran' = ran \cup {"accumulate"}
    /\ UNCHANGED <<pc, sequence_timings, zscore, valid_perc, argsTyped, n, diff,
                   outliers, valids, valid, delays, result, raised, log, draws>>

\* line 74
Return ==
    /\ pc = "loop"
    /\ k = Len(delays)
    /\ result' = SeqResult(timings, valid)
    /\ pc' = "done"
    /\ UNCHANGED <<sequence_timings, zscore, valid_perc, argsTyped, n, diff,
                   outliers, valids, valid, delays, timings, k, raised, log, draws, ran>>

Next == Validate \/ Filter \/ Gate \/ Draw \/ LoopStep \/ Return

Spec == Init /\ [][Next]_vars

----------------------------------------------------------------------------
(* What the call has done *)

Done == pc = "done"
ReturnedSeq == Done /\ result.kind = "seq"
ReturnedNone == Done /\ result.kind = "None"

\* the intervals _find_outliers did not flag (the cleaned interval subset)
CleanedSubset == {diff[i] : i \in {j \in 1..Len(diff) : (j - 1) \notin Range(outliers)}}

NonDecreasing(s) == \A i \in 1..(Len(s) - 1) : s[i] <= s[i + 1]

----------------------------------------------------------------------------
(* Claims *)

\* C1: when the call reaches the validity gate and returns a sequence, the
\* returned `valid` is true if and only if 100 * S / T >= valid_perc, with
\* S = valids.size and T = n - 1.
C1_ValidIffRatioMeetsThreshold ==
    ReturnedSeq =>
        (result.valid <=> 100 * Len(valids) >= valid_perc * (n - 1))

\* C2: a returned sequence is the running sum of the drawn delays: element 0
\* is 0 and element k+1 = element k + delays[k] for every k in 0..N-2.
C2_RunningSum ==
    ReturnedSeq =>
        /\ result.seq[1] = 0
        /\ \A i \in 1..(n - 1) : result.seq[i + 1] = result.seq[i] + delays[i]

\* C3: for a non-decreasing input of length N >= 2, a returned sequence
\* starts at 0 and is non-decreasing.
C3_StartsAtZeroNonDecreasing ==
    (ReturnedSeq /\ n >= 2 /\ NonDecreasing(sequence_timings)) =>
        /\ result.seq[1] = 0
        /\ NonDecreasing(result.seq)

\* C4: every derived interval of a returned sequence (element k+1 minus
\* element k) is a value of the cleaned, non-outlier interval subset.
C4_DerivedIntervalsFromCleaned ==
    ReturnedSeq =>
        \A i \in 1..(n - 1) : (result.seq[i + 1] - result.seq[i]) \in CleanedSubset

\* C5: whenever the cleaned interval subset (the intervals the filter did
\* not flag) is non-empty, synthesis runs and the returned sequence has
\* exactly N elements, whether the verdict is true or false.
C5_LengthPreserved ==
    (Done /\ "filter" \in ran /\ CleanedSubset # {}) =>
        /\ result.kind = "seq"
        /\ raised = ""
        /\ "draw" \in ran
        /\ Len(result.seq) = Len(sequence_timings)

\* C6: if outlier filtering flags every interval, the call returns
\* (None, False) without raising, without computing the ratio, without
\* drawing from the random generator and without building a sequence.
C6_AllFlaggedReturnsNone ==
    (Done /\ "filter" \in ran /\ Len(outliers) = Len(diff)) =>
        /\ result = NoneResult
        /\ raised = ""
        /\ "ratio" \notin ran
        /\ "draw" \notin ran
        /\ draws = 0
        /\ timings = <<>>

\* C7: with arguments of acceptable types and valid_perc < 0 or > 100 the
\* call ends in the configuration error, never in a returned pair, before
\* extraction, filtering, warning or random draw; valid_perc = 0 and
\* valid_perc = 100 raise no configuration error.
C7_ConfigurationError ==
    /\ (argsTyped /\ (valid_perc < 0 \/ valid_perc > 100)) =>
          /\ result = Unset
          /\ ran \subseteq {"validate"}
          /\ diff = <<>> /\ outliers = <<>> /\ valids = <<>>
          /\ log = <<>>
          /\ draws = 0
          /\ pc \in {"validate", "done"}
          /\ Done => raised = "ValueError"
    /\ (argsTyped /\ valid_perc \in {0, 100}) => raised # "ValueError"

\* C7 witness: the call with valid_perc = 150 has ended in the error.
C7_Witness ==
    Done /\ argsTyped /\ valid_perc = 150 /\ raised = "ValueError"

\* C8: for [0, 1, 2, 3, 100, 101, 102], zscore = 4.0, valid_perc = 60, the
\* filter flags exactly the interval 97, 5 of 6 intervals survive, valid is
\* True and the returned sequence has length 7, starts at 0 and is
\* non-decreasing.
C8_EndToEndExample ==
    (Done /\ sequence_timings = Example /\ zscore = <<DefaultZscore, 1>>
          /\ valid_perc = DefaultValidPerc) =>
        /\ {diff[i + 1] : i \in Range(outliers)} = {97}
        /\ Len(outliers) = 1
        /\ Cardinality({j \in 1..Len(diff) : (j - 1) \notin Range(outliers)}) = 5
        /\ result.kind = "seq"
        /\ result.valid
        /\ Len(result.seq) = 7
        /\ result.seq[1] = 0
        /\ NonDecreasing(result.seq)

\* C9: a warning is emitted exactly when 100 * S / T < valid_perc, it carries
\* the number of dropped intervals T - S, the total T and valid_perc, and the
\* sequence is still synthesized and returned.
C9_WarningWhenBelowThreshold ==
    (Done /\ "ratio" \in ran /\ raised = "") =>
        /\ (log # <<>>) <=> (100 * Len(valids) < valid_perc * (n - 1))
        /\ (log # <<>>) =>
              log = <<<<(n - 1) - Len(valids), n - 1, valid_perc>>>>
        /\ result.kind = "seq"

\* C10: the ratio is never computed with a zero denominator: whenever it is
\* computed, N - 1 >= S >= 1; an input of length N <= 1 ends at the
\* empty-set guard with (None, False) before the ratio; and a None result is
\* always paired with valid = False.
C10_NoZeroDenominator ==
    /\ ("ratio" \in ran) =>
          /\ n - 1 >= Len(valids)
          /\ Len(valids) >= 1
          /\ raised # "ZeroDivisionError"
    /\ (Done /\ argsTyped /\ ~(valid_perc < 0 \/ valid_perc > 100)
             /\ Len(sequence_timings) <= 1) =>
          /\ result = NoneResult
          /\ raised = ""
          /\ "ratio" \notin ran
    /\ (result.kind = "None") => ~result.valid

\* C10 witness: a one-element input has been answered with (None, False).
C10_Witness ==
    /\ Done
    /\ Len(sequence_timings) = 1
    /\ "filter" \in ran
    /\ result = NoneResult
    /\ "ratio" \notin ran

====
